---------------------------- MODULE Spec2Model ----------------------------
(***************************************************************************)
(* The curve editor of the MIDI-Transformer plugin: the node sequence of   *)
(* CurveEditorModel, the mouse handlers of CurveEditor that edit it, and   *)
(* CurveEditorModel::compute, which maps an input value onto the curve.    *)
(*                                                                         *)
(* Numbers.  The program computes in float.  The model computes exactly,   *)
(* on a grid of Scale steps per model unit; the editor component is taken  *)
(* to be sized so that one pixel is one grid step.  Every coordinate below *)
(* is a whole number of grid steps.  A value compute() returns is a        *)
(* fraction num/den of grid steps.  Float rounding is below the grid and   *)
(* is not modelled.                                                        *)
(***************************************************************************)
EXTENDS Integers, Sequences, FiniteSets, TLC

\* Grid steps per model unit, and pixels per model unit of the screen transform.
Scale == 2

\* The bounds the processor constructs its model with, in model units.
minXUnits == 0
maxXUnits == 127
minYUnits == 0
maxYUnits == 127

minX == minXUnits * Scale
maxX == maxXUnits * Scale
minY == minYUnits * Scale
maxY == maxYUnits * Scale

\* CurveType
Linear == 0
Quadratic == 1
Cubic == 2
CurveTypeCount == 3

POINT_SIZE == 10
DISTANCE_THRESHOLD == POINT_SIZE * 2

\* The offset of a re-seeded control handle from its anchor, in model units.
ControlOffset == 5
\* The margin that keeps a dragged inner handle off minX and maxX, in model units.
InnerMargin == 1
\* The damping of a drag step is DampNum / DampDen.
DampNum == 9
DampDen == 10
\* The last index j of the sampling grid t = j / SampleCount.
SampleCount == 100

\* The most handler calls that change the node sequence in one run of the model.
MaxEdits == 2

\* Editor::VELOCITY_DROPDOWN_ID and Editor::PITCH_DROPDOWN_ID
VELOCITY_DROPDOWN_ID == -1
PITCH_DROPDOWN_ID == -2
\* 1 << 14, the range of a pitch wheel position.
PitchRange == 16384
\* getSampleRate(), in samples per unit of time of the model.
SampleRate == 2

\* MidiQueue::queueSize: the slots of the queue between process and the timer.
queueSize == 3

\* The most calls of process in one run of the model.
MaxBlocks == 1

\* Node addresses: the three nodes of the constructor, one per insertion, and
\* one for the node of an insertion that is over the budget.
NodeIds == 1..(4 + MaxEdits)

VARIABLES
    nodes,           \* CurveEditorModel::nodes, a sequence of Node records
    selectedHandle,  \* CurveEditor::selectedHandle: NoHandle or a handle reference
    edits,           \* how many handler calls have changed nodes so far
    lastEvent,       \* the handler call that led to this state, see Event
    midiInputModel,  \* the DropdownListModel of the input dropdown
    midiOutputModel, \* the DropdownListModel of the output dropdown
    lastInputValue,  \* curveEditorModel.lastInputValue, a fraction of model units
    midi,            \* the MidiBuffer of the last call of process, as process left it
    block,           \* the last call of process: what it was given and what it did
    blocks,          \* how many calls of process there have been
    audio,           \* where the audio thread is in process
    fifo,            \* MidiQueue::fifo: validStart and validEnd of the AbstractFifo
    messages,        \* MidiQueue::messages, the slots 0 .. queueSize - 1
    pushLog,         \* every message push was given, in order, and whether it was taken
    timer,           \* where the timer thread is in timerCallback
    popped,          \* every message pop has handed out, in order
    state,           \* the child "curveState" of MidiTransformerPlugin::state
    saved,           \* the block the last call of getStateInformation wrote
    restored,        \* the block the last call of setStateInformation was given
    loading          \* where setStateInformation is in fromValueTree

editorVars == <<nodes, selectedHandle, edits, lastEvent>>

midiVars == <<midiInputModel, midiOutputModel, lastInputValue, midi, block, blocks>>

queueVars == <<audio, fifo, messages, pushLog>>

timerVars == <<timer, popped>>

stateVars == <<state, saved, restored, loading>>

pluginVars == <<midiVars, queueVars, timerVars, stateVars>>

vars == <<editorVars, pluginVars>>

\* Every handler ends with this: a call that changes nodes uses up one edit.
Counted ==
    /\ edits' = IF nodes' # nodes THEN edits + 1 ELSE edits
    /\ edits' <= MaxEdits

NoHandle == [node |-> 0, which |-> "none"]

\* The place of a call that has no place recorded.
NoPoint == [x |-> -1, y |-> -1]

\* A handler call: op is the handler; button the button of a press; within
\* tells whether a press or double click was within the distance threshold of
\* its closest handle; handle is that handle if it was, or the handle a drag
\* step moved; at is the point, in model space, of a double click, of a call
\* of addPoint or of the pointer of a drag step.
Event(op, button, handle, within) ==
    [op |-> op, button |-> button,
     handle |-> IF within \/ op = "mouseDrag" THEN handle ELSE NoHandle,
     within |-> within,
     at |-> NoPoint]

EventAt(op, handle, within, p) ==
    [Event(op, "none", handle, within) EXCEPT !.at = p]

Point(px, py) == [x |-> px, y |-> py]
PtAdd(p, q) == Point(p.x + q.x, p.y + q.y)
PtSub(p, q) == Point(p.x - q.x, p.y - q.y)

Abs(v) == IF v < 0 THEN -v ELSE v

\* A value compute() returns: num / den grid steps when kind is "value"; kind
\* "nan", "posinf" or "neginf" is what float division by zero produces.
\* asserted tells whether a jassert of compute failed on the way (a debug build
\* reports it and goes on; a release build compiles it out).
Value(num, den, asserted) ==
    [kind |-> "value",
     num |-> IF den < 0 THEN -num ELSE num,
     den |-> Abs(den),
     asserted |-> asserted]

NotANumber(kind, asserted) == [kind |-> kind, num |-> 0, den |-> 1, asserted |-> asserted]

\* juce::Point::getDistanceFrom, squared (the code compares distances only).
DistSq(p, q) == (p.x - q.x) * (p.x - q.x) + (p.y - q.y) * (p.y - q.y)

\* juce::jlimit (lowerLimit, upperLimit, valueToConstrain)
jlimit(lo, hi, v) == IF v < lo THEN lo ELSE IF hi < v THEN hi ELSE v

\* Node::Node(anchor): both controls start on the anchor, the type is Linear.
\* id stands for the address of the node (Handle::parent of its handles).
Node(id, pt) ==
    [id |-> id, anchor |-> pt, control1 |-> pt, control2 |-> pt, curveType |-> Linear]

\* setAnchorPt that stores the anchor and leaves the control points.
setAnchorPt_ControlsStay(n, pt) == [n EXCEPT !.anchor = pt]

setAnchorPt(n, pt) ==
    LET anchorControlDist1 == PtSub(n.anchor, n.control1)
        anchorControlDist2 == PtSub(n.anchor, n.control2)
    IN  [n EXCEPT !.anchor = pt,
                  !.control1 = PtSub(pt, anchorControlDist1),
                  !.control2 = PtSub(pt, anchorControlDist2)]

setControlPt1(n, pt) == [n EXCEPT !.control1 = pt]

setControlPt2(n, pt) == [n EXCEPT !.control2 = pt]

\* screenSpaceTransform of CurveEditor::resized: translate by (-minX, -maxY),
\* then scale by width / (maxX - minX) and height / (minY - maxY); with one
\* pixel per grid step these scales are 1 and -1.
transformPointToScreenSpace(p) == Point(p.x - minX, maxY - p.y)

transformPointFromScreenSpace(s) == Point(s.x + minX, maxY - s.y)

\* The position in the sequence of the node with this address, 0 if none.
IndexOf(ns, id) ==
    IF \E i \in 1..Len(ns) : ns[i].id = id
    THEN CHOOSE i \in 1..Len(ns) : ns[i].id = id
    ELSE 0

HandlePt(n, which) ==
    IF which = "anchor" THEN n.anchor
    ELSE IF which = "control1" THEN n.control1
    ELSE n.control2


\* ConsiderHandle with dist <= closestHandleDist as the test: on equal distance
\* the handle met last wins.
ConsiderHandle_LastWins(acc, n, which, modelPt) ==
    LET dist == DistSq(modelPt, HandlePt(n, which))
    IN  IF dist <= acc.dist \/ acc.handle = NoHandle
        THEN [handle |-> [node |-> n.id, which |-> which], dist |-> dist]
        ELSE acc

\* A pass of the loop of getClosestHandle over one handle: it becomes the closest
\* if it is strictly nearer than the closest so far, or if there is none so far.
ConsiderHandle(acc, n, which, modelPt) ==
    LET dist == DistSq(modelPt, HandlePt(n, which))
    IN  IF dist < acc.dist \/ acc.handle = NoHandle
        THEN [handle |-> [node |-> n.id, which |-> which], dist |-> dist]
        ELSE acc

ConsiderNode(acc, n, modelPt) ==
    LET a == ConsiderHandle(acc, n, "anchor", modelPt)
        q == IF n.curveType = Quadratic
             THEN ConsiderHandle(a, n, "control1", modelPt)
             ELSE a
    IN  IF n.curveType = Cubic
        THEN ConsiderHandle(ConsiderHandle(q, n, "control1", modelPt),
                            n, "control2", modelPt)
        ELSE q

RECURSIVE ClosestFrom(_, _, _, _)
ClosestFrom(ns, i, acc, modelPt) ==
    IF i > Len(ns) THEN acc
    ELSE ClosestFrom(ns, i + 1, ConsiderNode(acc, ns[i], modelPt), modelPt)

\* CurveEditor::getClosestHandle: NoHandle stands for nullptr.
getClosestHandle(ns, screenPt) ==
    ClosestFrom(ns, 1, [handle |-> NoHandle, dist |-> 0],
                transformPointFromScreenSpace(screenPt)).handle

\* The point of a handle of a node that is in the sequence.
PtOf(ns, h) == HandlePt(ns[IndexOf(ns, h.node)], h.which)

\* closestPointDist < DISTANCE_THRESHOLD, both sides squared.
WithinThreshold(ns, h, screenPt) ==
    DistSq(transformPointToScreenSpace(PtOf(ns, h)), screenPt)
        < DISTANCE_THRESHOLD * DISTANCE_THRESHOLD

\* nodes.erase (nodes.begin()): the index is dropped.
Erase_First(ns, toErase) == [i \in 1..(Len(ns) - 1) |-> ns[i + 1]]

\* nodes.erase (nodes.begin() + toErase), toErase counted from 1.
Erase(ns, toErase) ==
    [i \in 1..(Len(ns) - 1) |-> IF i < toErase THEN ns[i] ELSE ns[i + 1]]

\* nodes.emplace (nodes.begin() + i, n), i counted from 1.
Emplace(ns, i, n) ==
    [k \in 1..(Len(ns) + 1) |->
        IF k < i THEN ns[k] ELSE IF k = i THEN n ELSE ns[k - 1]]

\* std::make_shared<Node>: an address no node of the sequence has.
FreshId(ns) == CHOOSE id \in NodeIds :
    /\ \A i \in 1..Len(ns) : ns[i].id # id
    /\ \A other \in NodeIds :
          (\A i \in 1..Len(ns) : ns[i].id # other) => id <= other

\* DeleteNodeOf without the test that keeps the first and the last node.
DeleteNodeOf_Unguarded(ns, h) ==
    LET toErase == IndexOf(ns, h.node)
    IN  IF toErase # 0 THEN Erase(ns, toErase) ELSE ns

\* DeleteNodeOf with the test for nodes.back() forgotten.
DeleteNodeOf_FrontOnly(ns, h) ==
    IF h.node # ns[1].id
    THEN LET toErase == IndexOf(ns, h.node)
         IN  IF toErase # 0 THEN Erase(ns, toErase) ELSE ns
    ELSE ns

\* The nodes after the right-button branch of mouseDown on handle h.
DeleteNodeOf(ns, h) ==
    IF h.node # ns[1].id /\ h.node # ns[Len(ns)].id
    THEN LET toErase == IndexOf(ns, h.node)
         IN  IF toErase # 0 THEN Erase(ns, toErase) ELSE ns
    ELSE ns

mouseDown(mouseDownPosition, button) ==
    LET closestHandle == getClosestHandle(nodes, mouseDownPosition)
    IN  /\ lastEvent' = Event("mouseDown", button, closestHandle,
                               /\ closestHandle # NoHandle
                               /\ WithinThreshold(nodes, closestHandle, mouseDownPosition))
        /\ IF closestHandle = NoHandle
           THEN UNCHANGED <<nodes, selectedHandle>>
           ELSE IF WithinThreshold(nodes, closestHandle, mouseDownPosition)
           THEN IF button = "left"
                THEN /\ selectedHandle' = closestHandle
                     /\ UNCHANGED nodes
                ELSE IF button = "right"
                THEN /\ nodes' = DeleteNodeOf(nodes, closestHandle)
                     /\ selectedHandle' =
                           IF /\ closestHandle.node # nodes[1].id
                              /\ closestHandle.node # nodes[Len(nodes)].id
                           THEN NoHandle
                           ELSE selectedHandle
                ELSE UNCHANGED <<nodes, selectedHandle>>
           ELSE /\ selectedHandle' = NoHandle
                /\ UNCHANGED nodes
        /\ Counted

\* A drag step that puts the handle on the pointer.
Damp_Snap(s, m) == m

\* selectedPoint + 0.9f * (modelSpaceMousePt - selectedPoint), one coordinate.
Damp(s, m) == s + (DampNum * (m - s)) \div DampDen

\* A drag step without the limits and without the pinning of the endpoints.
DraggedPoint_Unclamped(ns, n, which, modelSpaceMousePt) ==
    LET s == HandlePt(n, which)
    IN  Point(Damp(s.x, modelSpaceMousePt.x), Damp(s.y, modelSpaceMousePt.y))

\* The point mouseDrag gives the selected handle of node n for this pointer.
DraggedPoint(ns, n, which, modelSpaceMousePt) ==
    LET s == HandlePt(n, which)
        dx == jlimit(minX + InnerMargin * Scale, maxX - InnerMargin * Scale,
                     Damp(s.x, modelSpaceMousePt.x))
        dy == jlimit(minY, maxY, Damp(s.y, modelSpaceMousePt.y))
    IN  IF n.id = ns[1].id THEN Point(minX, dy)
        ELSE IF n.id = ns[Len(ns)].id THEN Point(maxX, dy)
        ELSE Point(dx, dy)

\* The node after mouseDrag has applied selectedPoint to its handle `which`.
ApplyDrag(n, which, selectedPoint) ==
    IF which = "anchor" THEN setAnchorPt(n, selectedPoint)
    ELSE IF which = "control1" /\ n.curveType \in {Quadratic, Cubic}
    THEN setControlPt1(n, selectedPoint)
    ELSE IF which = "control2" /\ n.curveType = Cubic
    THEN setControlPt2(n, selectedPoint)
    ELSE n

\* CurveEditor::mouseDrag.  A selectedHandle whose node is no longer in the
\* sequence points into freed storage: what the handler reads and writes
\* there is no node of the model (a new node that got that storage has the
\* handle's address, and is then the node moved).
mouseDrag(mousePt) ==
    /\ lastEvent' = EventAt("mouseDrag", selectedHandle, FALSE,
                             transformPointFromScreenSpace(mousePt))
    /\ IF selectedHandle # NoHandle
       THEN LET i == IndexOf(nodes, selectedHandle.node)
                modelSpaceMousePt == transformPointFromScreenSpace(mousePt)
                selectedPoint ==
                    DraggedPoint(nodes, nodes[i], selectedHandle.which, modelSpaceMousePt)
            IN  /\ nodes' = IF i # 0
                             THEN [nodes EXCEPT
                                     ![i] = ApplyDrag(nodes[i], selectedHandle.which,
                                                      selectedPoint)]
                             ELSE nodes
                /\ UNCHANGED selectedHandle
       ELSE UNCHANGED <<nodes, selectedHandle>>
    /\ Counted

\* mouseUp that leaves the selection as it is.
mouseUp_KeepsSelection ==
    /\ lastEvent' = Event("mouseUp", "none", NoHandle, FALSE)
    /\ UNCHANGED <<nodes, selectedHandle>>
    /\ Counted

mouseUp ==
    /\ lastEvent' = Event("mouseUp", "none", NoHandle, FALSE)
    /\ selectedHandle' = NoHandle
    /\ UNCHANGED nodes
    /\ Counted

\* InsertIndex with p.x < anchor.x as the test: a tie inserts after.
InsertIndex_Strict(ns, p) ==
    IF \E i \in 1..Len(ns) : p.x < ns[i].anchor.x
    THEN CHOOSE i \in 1..Len(ns) :
            /\ p.x < ns[i].anchor.x
            /\ \A k \in 1..(i - 1) : ~(p.x < ns[k].anchor.x)
    ELSE 0

\* The index addPoint inserts at: the first node with p.x <= anchor.x; 0 if none.
InsertIndex(ns, p) ==
    IF \E i \in 1..Len(ns) : p.x <= ns[i].anchor.x
    THEN CHOOSE i \in 1..Len(ns) :
            /\ p.x <= ns[i].anchor.x
            /\ \A k \in 1..(i - 1) : ~(p.x <= ns[k].anchor.x)
    ELSE 0

addPoint(ns, p) ==
    LET i == InsertIndex(ns, p)
    IN  IF i # 0 THEN Emplace(ns, i, Node(FreshId(ns), p)) ELSE ns

\* CycleType with the control handles left as they are.
CycleType_KeepControls(n, isBack) ==
    [n EXCEPT !.curveType = (n.curveType + 1) % CurveTypeCount]

\* The node after the type-cycling branch of mouseDoubleClick; isBack tells
\* whether it is nodes.back().
CycleType(n, isBack) ==
    LET newType == (n.curveType + 1) % CurveTypeCount
        m == [n EXCEPT !.curveType = newType]
        controlPoint1 == PtAdd(n.anchor, Point(ControlOffset * Scale, 0))
        controlPoint2 == PtAdd(n.anchor, Point(0, ControlOffset * Scale))
    IN  IF newType = Linear THEN setControlPt1(m, n.anchor)
        ELSE IF newType = Quadratic /\ ~isBack THEN setControlPt1(m, controlPoint1)
        ELSE IF newType = Cubic /\ ~isBack
        THEN setControlPt2(setControlPt1(m, controlPoint1), controlPoint2)
        ELSE m

\* What mouseDoubleClick does to the editor.
DoubleClicked(mousePt) ==
    LET closestHandle == getClosestHandle(nodes, mousePt)
    IN  /\ lastEvent' = EventAt("mouseDoubleClick", closestHandle,
                                 /\ closestHandle # NoHandle
                                 /\ WithinThreshold(nodes, closestHandle, mousePt),
                                 transformPointFromScreenSpace(mousePt))
        /\ UNCHANGED selectedHandle
        /\ IF closestHandle = NoHandle
           THEN UNCHANGED nodes
           ELSE IF /\ WithinThreshold(nodes, closestHandle, mousePt)
                   /\ closestHandle.which = "anchor"
           THEN LET i == IndexOf(nodes, closestHandle.node)
                IN  nodes' = [nodes EXCEPT ![i] = CycleType(nodes[i], i = Len(nodes))]
           ELSE nodes' = addPoint(nodes, transformPointFromScreenSpace(mousePt))

mouseDoubleClick(mousePt) ==
    /\ DoubleClicked(mousePt)
    /\ Counted


\* computeCubic at t = j / SampleCount, on one coordinate, times SampleCount^3.
computeCubic(p0, p1, p2, p3, j) ==
    LET u == SampleCount - j
    IN  p0 * u * u * u + p1 * 3 * u * u * j + p2 * 3 * u * j * j + p3 * j * j * j

\* computeQuadratic at t = j / SampleCount, on one coordinate, times SampleCount^2.
computeQuadratic(p0, p1, p2, j) ==
    LET u == SampleCount - j
    IN  p0 * u * u + p1 * 2 * u * j + p2 * j * j

CubicDen == SampleCount * SampleCount * SampleCount
QuadraticDen == SampleCount * SampleCount

\* The sampling loop with minDist never stored: every sample replaces finalT.
SampleLoop_NoUpdate(xs, target, lo, hi) == [finalT |-> hi, minDist |-> 0]

\* The sampling loop over every tenth sample only: t = 0, 0.1, ..., 1.
SampleLoop_Coarse(xs, target, lo, hi) ==
    LET js == { j \in lo..hi : j % 10 = 0 }
        best == CHOOSE j \in js :
                    \A k \in js : /\ Abs(xs[j] - target) <= Abs(xs[k] - target)
                                   /\ k < j => Abs(xs[j] - target) < Abs(xs[k] - target)
    IN  [finalT |-> best, minDist |-> Abs(xs[best] - target)]

\* The sampling loop of the Cubic and Quadratic cases over the samples lo..hi:
\* xs[j] is the scaled Bezier x of sample j, target the scaled input.  The loop
\* replaces finalT only by a sample of strictly smaller distance, so it ends
\* with the first sample of least distance; the range is halved to find it.
\* The result is finalT, as a sample index, and minDist.
RECURSIVE SampleLoop(_, _, _, _)
SampleLoop(xs, target, lo, hi) ==
    IF lo = hi THEN [finalT |-> lo, minDist |-> Abs(xs[lo] - target)]
    ELSE LET mid == (lo + hi) \div 2
             first == SampleLoop(xs, target, lo, mid)
             second == SampleLoop(xs, target, mid + 1, hi)
         IN  IF second.minDist < first.minDist THEN second ELSE first

\* The Linear case without the left anchor's y added: slope * (input - x0).
LinearCase_NoOffset(lastAnchorPoint, anchorPoint, input, asserted) ==
    LET dy == anchorPoint.y - lastAnchorPoint.y
        dx == anchorPoint.x - lastAnchorPoint.x
    IN  IF dx # 0
        THEN Value(dy * (input - lastAnchorPoint.x), dx, asserted)
        ELSE NotANumber("nan", asserted)

\* The Linear case of compute: slope * (input - lastAnchorPoint.x) + lastAnchorPoint.y
\* with slope = (anchorPoint.y - lastAnchorPoint.y) / (anchorPoint.x - lastAnchorPoint.x).
\* When the anchors share their x the float slope is +inf, -inf or (0 / 0) NaN.
LinearCase(lastAnchorPoint, anchorPoint, input, asserted) ==
    LET dy == anchorPoint.y - lastAnchorPoint.y
        dx == anchorPoint.x - lastAnchorPoint.x
        run == input - lastAnchorPoint.x
    IN  IF dx # 0
        THEN Value(dy * run + lastAnchorPoint.y * dx, dx, asserted)
        ELSE IF dy = 0 \/ run = 0 THEN NotANumber("nan", asserted)
        ELSE IF (dy > 0) = (run > 0) THEN NotANumber("posinf", asserted)
        ELSE NotANumber("neginf", asserted)

\* The Cubic case of compute.
CubicCase(lastNode, node, input, asserted) ==
    LET c1 == lastNode.control1
        c2 == lastNode.control2
        xs == [j \in 0..SampleCount |->
                 computeCubic(lastNode.anchor.x, c1.x, c2.x, node.anchor.x, j)]
        finalT == SampleLoop(xs, input * CubicDen, 0, SampleCount).finalT
    IN  Value(computeCubic(lastNode.anchor.y, c1.y, c2.y, node.anchor.y, finalT),
              CubicDen, asserted)

\* The Quadratic case of compute.
QuadraticCase(lastNode, node, input, asserted) ==
    LET c == lastNode.control1
        xs == [j \in 0..SampleCount |->
                 computeQuadratic(lastNode.anchor.x, c.x, node.anchor.x, j)]
        finalT == SampleLoop(xs, input * QuadraticDen, 0, SampleCount).finalT
    IN  Value(computeQuadratic(lastNode.anchor.y, c.y, node.anchor.y, finalT),
              QuadraticDen, asserted)

\* switch (curveType) of compute, for the segment lastNode .. node.
SwitchCurveType(curveType, lastNode, node, input, asserted) ==
    IF curveType = Cubic THEN CubicCase(lastNode, node, input, asserted)
    ELSE IF curveType = Quadratic THEN QuadraticCase(lastNode, node, input, asserted)
    ELSE LinearCase(lastNode.anchor, node.anchor, input, asserted)

\* The segment evaluated with the kind of its right node.
EvalSegment_RightType(lastNode, node, input, asserted) ==
    SwitchCurveType(node.curveType, lastNode, node, input, asserted)

\* The body of the loop of compute once input <= anchorPoint.x holds.
EvalSegment(lastNode, node, input, asserted) ==
    SwitchCurveType(lastNode.curveType, lastNode, node, input, asserted)

\* The loop of compute from index i (counted from 1) on.
RECURSIVE ComputeFrom(_, _, _, _)
ComputeFrom(ns, i, input, asserted) ==
    IF i > Len(ns)
    THEN Value(0, 1, TRUE)      \* jassertfalse; return 0.0f
    ELSE LET a == asserted \/ ~(ns[i - 1].anchor.x <= ns[i].anchor.x)
         IN  IF input <= ns[i].anchor.x
             THEN EvalSegment(ns[i - 1], ns[i], input, a)
             ELSE ComputeFrom(ns, i + 1, input, a)

\* CurveEditorModel::compute
compute(ns, input) == ComputeFrom(ns, 2, input, ~(Len(ns) > 1))

\* Node::toValueTree: a tree with the property curveType and the children
\* anchor, control1 and control2, each with the properties x and y.  The
\* address of the node is not part of it.
toValueTree(n) ==
    [curveType |-> n.curveType,
     anchor |-> [x |-> n.anchor.x, y |-> n.anchor.y],
     control1 |-> [x |-> n.control1.x, y |-> n.control1.y],
     control2 |-> [x |-> n.control2.x, y |-> n.control2.y]]

\* The children the processor's getStateInformation gives the curve state: one
\* tree per node, in the order of the sequence.
StateTree(ns) == [i \in 1..Len(ns) |-> toValueTree(ns[i])]

\* The loop body of fromValueTree with the anchor stored last, through
\* setAnchorPt, after the control points.
NodeFromTree_AnchorLast(id, child) ==
    setAnchorPt(
        setControlPt2(
            setControlPt1([Node(id, Point(0, 0)) EXCEPT !.curveType = child.curveType],
                          Point(child.control1.x, child.control1.y)),
            Point(child.control2.x, child.control2.y)),
        Point(child.anchor.x, child.anchor.y))

\* The ValueTree that is not valid: what getChildWithName gives for a name the
\* tree has no child of.  It has no properties and no children.
InvalidTree == << >>

\* ValueTree::getChildWithName, for a tree given as a record of its children.
getChildWithName(tree, name) ==
    IF name \in DOMAIN tree THEN tree[name] ELSE InvalidTree

\* ValueTree::getProperty, converted to a number: a property the tree does not
\* have is a void var, which converts to 0.
getProperty(tree, name) ==
    IF name \in DOMAIN tree THEN tree[name] ELSE 0

\* The loop body of fromValueTree: a new node on the anchor, then its type,
\* then its control points.
NodeFromTree(id, child) ==
    LET anchor == getChildWithName(child, "anchor")
        control1 == getChildWithName(child, "control1")
        control2 == getChildWithName(child, "control2")
    IN  setControlPt2(
            setControlPt1([Node(id, Point(getProperty(anchor, "x"), getProperty(anchor, "y")))
                              EXCEPT !.curveType = getProperty(child, "curveType")],
                          Point(getProperty(control1, "x"), getProperty(control1, "y"))),
            Point(getProperty(control2, "x"), getProperty(control2, "y")))

\* CurveEditorModel::fromValueTree: the nodes after nodes.clear() and the loop.
\* The new nodes are new objects; the i-th one made is given the address i.
fromValueTree(tree) == [i \in 1..Len(tree) |-> NodeFromTree(i, tree[i])]

(***************************************************************************)
(* The processor: MIDI messages, process, and the queue to the timer.      *)
(***************************************************************************)
\* DropdownListModel: selectedItemId, and whether anything was stored in it yet
\* (the processor constructs its two models without a value).
DropdownListModel(selectedItemId, stored) ==
    [selectedItemId |-> selectedItemId, stored |-> stored]

Indeterminate == DropdownListModel(0, FALSE)

\* A float that is a whole fraction num / den.
Fraction(num, den) == [num |-> num, den |-> den]

\* juce::MidiMessage: a controller change (number, value), a note on with a
\* velocity above 0 (note, velocity), a note off, a pitch wheel position, or
\* the message of the default constructor, an empty system-exclusive message.
Message(kind, channel, number, value) ==
    [kind |-> kind, channel |-> channel, number |-> number, value |-> value]

DefaultMessage == Message("sysex", 0, 0, 0)

\* An event of a MidiBuffer: a message and its sample position.  The message
\* the iteration of a buffer yields has the sample position as its time stamp,
\* so the same record stands for a message with its time stamp.
MidiEvent(msg, pos) == [msg |-> msg, pos |-> pos]

\* MidiBuffer::addEvent: the event goes behind the events that are not later.
addEvent(buffer, msg, sampleNumber) ==
    LET k == Cardinality({ i \in 1..Len(buffer) : buffer[i].pos <= sampleNumber })
    IN  SubSeq(buffer, 1, k) \o << MidiEvent(msg, sampleNumber) >>
            \o SubSeq(buffer, k + 1, Len(buffer))

\* static_cast<int> of a float num / den: towards zero.
TruncDiv(num, den) == IF num >= 0 THEN num \div den ELSE -((-num) \div den)

\* MidiMessage::controllerEvent: the value byte is value & 127.
controllerEvent(channel, controllerType, value) ==
    Message("controller", channel, controllerType % 128, value % 128)

\* MidiMessage::pitchWheel: the two data bytes hold position & 0x3fff.
pitchWheel(channel, position) ==
    Message("pitchWheel", channel, 0, position % PitchRange)

\* Which branch of process the message takes for this CC_IN: "controller",
\* "velocity", "pitch", or "forward" when it is not remapped.
Branch(msg, CC_IN) ==
    IF msg.kind = "controller" /\ msg.number = CC_IN THEN "controller"
    ELSE IF CC_IN = VELOCITY_DROPDOWN_ID - 1 /\ msg.kind = "noteOn" THEN "velocity"
    ELSE IF CC_IN = PITCH_DROPDOWN_ID - 1 /\ msg.kind = "pitchWheel" THEN "pitch"
    ELSE "forward"

\* inputValue with the pitch wheel position taken as it is.
InputValue_RawPitch(msg, branch) == Fraction(msg.value, 1)

\* inputValue of process for a message that is remapped, in model units: the
\* controller value, the velocity, or the pitch wheel position divided by
\* 1 << 14 and multiplied by maxY - minY.
InputValue(msg, branch) ==
    IF branch = "pitch"
    THEN Fraction(msg.value * (maxYUnits - minYUnits), PitchRange)
    ELSE Fraction(msg.value, 1)

\* A fraction of model units as grid steps (the fractions of the model's
\* messages are whole numbers of grid steps).
GridSteps(f) == (f.num * Scale) \div f.den

\* acc + x * 2^n / d, with 0 <= x < d, towards zero.
RECURSIVE TimesPowerOfTwo(_, _, _, _)
TimesPowerOfTwo(acc, x, d, n) ==
    IF n = 0 THEN acc
    ELSE TimesPowerOfTwo(2 * acc + (2 * x) \div d, (2 * x) % d, d, n - 1)

\* static_cast<int> ((outputValue * (1 << 14)) / (maxY - minY)) for the value
\* compute returned, a fraction of grid steps.
PitchOutput(r) ==
    LET d == r.den * (maxY - minY)
        magnitude == TimesPowerOfTwo(Abs(r.num) \div d, Abs(r.num) % d, d, 14)
    IN  IF r.num >= 0 THEN magnitude ELSE -magnitude

\* The message process makes of the value compute returned; ub is the int a
\* conversion of a float that is no number yields.
Remapped(msg, CC_OUT, r, ub) ==
    IF CC_OUT >= 0
    THEN controllerEvent(msg.channel, CC_OUT,
                         IF r.kind = "value" THEN TruncDiv(r.num, r.den * Scale) ELSE ub)
    ELSE IF CC_OUT = PITCH_DROPDOWN_ID - 1
    THEN pitchWheel(msg.channel, IF r.kind = "value" THEN PitchOutput(r) ELSE ub)
    ELSE DefaultMessage

\* The body of the loop of process for one event of the buffer: acc holds
\* newMidiBuffer (out), lastInputValue (last) and the calls of compute so far.
ProcessEvent(ns, acc, ev, CC_IN, CC_OUT, ub) ==
    LET msg == ev.msg
        sampleNumber == ev.pos * SampleRate
        branch == Branch(msg, CC_IN)
        inputValue == InputValue(msg, branch)
        outputValue == compute(ns, GridSteps(inputValue))
        forwarded == IF branch = "velocity"
                     THEN addEvent(acc.out, msg, sampleNumber)
                     ELSE acc.out
    IN  IF branch = "forward"
        THEN [acc EXCEPT !.out = addEvent(@, msg, sampleNumber)]
        ELSE [out |-> addEvent(forwarded, Remapped(msg, CC_OUT, outputValue, ub),
                               sampleNumber),
              last |-> inputValue,
              calls |-> Append(acc.calls, [input |-> inputValue, msg |-> msg,
                                           nodes |-> ns, result |-> outputValue])]

\* The loop of process over the first k events of the buffer.
RECURSIVE ProcessLoop(_, _, _, _, _, _, _)
ProcessLoop(ns, last, buffer, k, CC_IN, CC_OUT, ub) ==
    IF k = 0 THEN [out |-> << >>, last |-> last, calls |-> << >>]
    ELSE ProcessEvent(ns, ProcessLoop(ns, last, buffer, k - 1, CC_IN, CC_OUT, ub),
                      buffer[k], CC_IN, CC_OUT, ub)

\* The values a read of selectedItemId can yield.
IndeterminateInts == {0, 1}

ItemIds(model) == IF model.stored THEN {model.selectedItemId} ELSE IndeterminateInts

\* The ints a conversion of a float that is no number can yield.
UndefinedInts == {0, -1}

\* The audio thread between two calls of process.
AudioIdle == [pc |-> "idle", k |-> 0]

\* The record of a call of process: the buffer it was given, CC_IN and CC_OUT,
\* its calls of compute (input, message, the nodes compute read, result),
\* lastInputValue before the call, and where setStateInformation was then.
NoBlock ==
    [input |-> << >>, CC_IN |-> 0, CC_OUT |-> 0, calls |-> << >>,
     before |-> Fraction(0, 1), loading |-> "idle"]

\* AbstractFifo::getNumReady
getNumReady(f) ==
    IF f.validEnd >= f.validStart THEN f.validEnd - f.validStart
    ELSE queueSize - (f.validStart - f.validEnd)

\* The free space with no slot left empty.
getFreeSpace_AllSlots(f) == queueSize - getNumReady(f)

\* AbstractFifo::getFreeSpace: one slot is always left empty.
getFreeSpace(f) == queueSize - getNumReady(f) - 1

\* What the audio thread does after the message k of the buffer: the next
\* message, or the end of process.
AfterMessage(k) ==
    IF k < Len(midi) THEN [pc |-> "write", k |-> k + 1] ELSE AudioIdle

\* process, up to its call of queue.push: the loop over the buffer and
\* midi.swapWith (newMidiBuffer).
process(buffer) ==
    /\ audio.pc = "idle"
    /\ blocks < MaxBlocks
    /\ \E inId \in ItemIds(midiInputModel), outId \in ItemIds(midiOutputModel),
          ub \in UndefinedInts :
          LET CC_IN == inId - 1
              CC_OUT == outId - 1
              done == ProcessLoop(nodes, lastInputValue, buffer, Len(buffer),
                                  CC_IN, CC_OUT, ub)
          IN  /\ (\A c \in 1..Len(done.calls) : done.calls[c].result.kind = "value")
                    => ub = 0
              /\ midi' = done.out
              /\ lastInputValue' = done.last
              /\ block' = [input |-> buffer, CC_IN |-> CC_IN, CC_OUT |-> CC_OUT,
                           calls |-> done.calls, before |-> lastInputValue,
                           loading |-> loading.pc]
              /\ audio' = IF done.out = << >> THEN AudioIdle ELSE [pc |-> "write", k |-> 1]
    /\ blocks' = blocks + 1
    /\ UNCHANGED <<midiInputModel, midiOutputModel, fifo, messages, pushLog, timerVars, editorVars, stateVars>>

\* MidiQueue::push for one message of the buffer, first half: fifo.write (1)
\* and, when it yields a slot, messages[dest] = metadata.getMessage().  With no
\* free slot the block is empty and the message is left out.
pushWrite ==
    /\ audio.pc = "write"
    /\ IF getFreeSpace(fifo) >= 1
       THEN /\ messages' = [messages EXCEPT ![fifo.validEnd] = midi[audio.k]]
            /\ audio' = [audio EXCEPT !.pc = "finish"]
            /\ UNCHANGED pushLog
       ELSE /\ pushLog' = Append(pushLog, [ev |-> midi[audio.k], taken |-> FALSE])
            /\ audio' = AfterMessage(audio.k)
            /\ UNCHANGED messages
    /\ UNCHANGED <<fifo, midiVars, timerVars, editorVars, stateVars>>

\* MidiQueue::push for one message, second half: the end of the ScopedWrite,
\* AbstractFifo::finishedWrite (1).
pushFinish ==
    /\ audio.pc = "finish"
    /\ fifo' = [fifo EXCEPT !.validEnd = (@ + 1) % queueSize]
    /\ pushLog' = Append(pushLog, [ev |-> midi[audio.k], taken |-> TRUE])
    /\ audio' = AfterMessage(audio.k)
    /\ UNCHANGED <<messages, midiVars, timerVars, editorVars, stateVars>>

\* The timer thread between two calls of timerCallback.
TimerIdle == [pc |-> "idle", start |-> 0, count |-> 0, k |-> 0]

\* timerCallback, up to the first copy of MidiQueue::pop:
\* fifo.read (fifo.getNumReady()) yields the slots from validStart on.
timerCallback ==
    /\ timer.pc = "idle"
    /\ timer' = IF getNumReady(fifo) = 0 THEN TimerIdle
                ELSE [pc |-> "copy", start |-> fifo.validStart,
                      count |-> getNumReady(fifo), k |-> 0]
    /\ UNCHANGED <<popped, midiVars, queueVars, editorVars, stateVars>>

\* MidiQueue::pop, one round of forEach: *out++ = messages[source].
popCopy ==
    /\ timer.pc = "copy"
    /\ popped' = Append(popped, messages[(timer.start + timer.k) % queueSize])
    /\ timer' = IF timer.k + 1 < timer.count
                THEN [timer EXCEPT !.k = @ + 1]
                ELSE [timer EXCEPT !.pc = "finish"]
    /\ UNCHANGED <<midiVars, queueVars, editorVars, stateVars>>

\* MidiQueue::pop, the end of the ScopedRead: AbstractFifo::finishedRead, and
\* the end of timerCallback.
popFinish ==
    /\ timer.pc = "finish"
    /\ fifo' = [fifo EXCEPT !.validStart = (@ + timer.count) % queueSize]
    /\ timer' = TimerIdle
    /\ UNCHANGED <<popped, audio, messages, pushLog, midiVars, editorVars, stateVars>>

\* midiInputDropdown.onChange and midiOutputDropdown.onChange
midiInputChanged(id) ==
    /\ midiInputModel' = DropdownListModel(id, TRUE)
    /\ UNCHANGED <<midiOutputModel, lastInputValue, midi, block, blocks, queueVars, timerVars, editorVars, stateVars>>

midiOutputChanged(id) ==
    /\ midiOutputModel' = DropdownListModel(id, TRUE)
    /\ UNCHANGED <<midiInputModel, lastInputValue, midi, block, blocks, queueVars, timerVars, editorVars, stateVars>>


(***************************************************************************)
(* The processor's state: getStateInformation and setStateInformation.     *)
(* Of the tree MidiTransformerPlugin::state the model keeps the child      *)
(* "curveState"; the child "uiState" plays no part in the curve.           *)
(***************************************************************************)
\* A tree without a child "curveState", and one with it and these children.
NoCurveState == [valid |-> FALSE, children |-> << >>]

CurveState(children) == [valid |-> TRUE, children |-> children]

\* A block of persisted state: whether getXmlFromBinary reads it, the child
\* "curveState" of the tree it holds, what it is (kind), and, for a block
\* getStateInformation wrote, the curve at that time (of).
Data(kind, readable, curveState, of) ==
    [kind |-> kind, readable |-> readable, curveState |-> curveState, of |-> of]

NoData == Data("none", FALSE, NoCurveState, << >>)

LoadIdle == [pc |-> "idle", i |-> 0]

\* getStateInformation: a copy of state whose child "curveState" gets one
\* child per node; a tree without that child stays without it, since
\* removeAllChildren and addChild do nothing on the invalid tree.
getStateInformation ==
    /\ loading.pc = "idle"
    /\ lastEvent' = Event("getStateInformation", "none", NoHandle, FALSE)
    /\ saved' = Data("saved", TRUE,
                     IF state.valid THEN CurveState(StateTree(nodes)) ELSE NoCurveState,
                     StateTree(nodes))
    /\ UNCHANGED <<nodes, selectedHandle, edits, state, restored, loading,
                   midiVars, queueVars, timerVars>>

\* setStateInformation, up to the loop of fromValueTree: a block that cannot be
\* read changes nothing; otherwise state becomes the tree of the block and
\* fromValueTree starts with nodes.clear().
setStateInformation(data) ==
    /\ loading.pc = "idle"
    /\ lastEvent' = Event("setStateInformation", "none", NoHandle, FALSE)
    /\ restored' = data
    /\ IF data.readable
       THEN /\ state' = data.curveState
            /\ nodes' = << >>
            /\ loading' = IF Len(data.curveState.children) = 0 THEN LoadIdle
                          ELSE [pc |-> "loop", i |-> 1]
            /\ edits' = edits + 1
            /\ edits' <= MaxEdits
       ELSE UNCHANGED <<state, nodes, loading, edits>>
    /\ UNCHANGED <<selectedHandle, saved, midiVars, queueVars, timerVars>>

\* The addresses make_shared can give the next node of a load.  nodes.clear()
\* has freed the nodes held before, so the new node gets storage no node of
\* the sequence has: the lowest such address, or, when the handle h still
\* points into freed storage, either that storage or the lowest other one.
NewNodeIds(ns, h) ==
    LET free == { id \in NodeIds : \A i \in 1..Len(ns) : ns[i].id # id }
        others == free \ {h.node}
    IN  (free \cap {h.node}) \cup { id \in others : \A o \in others : id <= o }

\* One round of the loop of fromValueTree: the node of child i is pushed back.
\* The new nodes are new objects.
loadStep ==
    /\ loading.pc = "loop"
    /\ \E id \in NewNodeIds(nodes, selectedHandle) :
          nodes' = Append(nodes, NodeFromTree(id, state.children[loading.i]))
    /\ loading' = IF loading.i < Len(state.children)
                  THEN [loading EXCEPT !.i = @ + 1]
                  ELSE LoadIdle
    /\ UNCHANGED <<selectedHandle, edits, lastEvent, state, saved, restored,
                   midiVars, queueVars, timerVars>>

\* CurveEditorModel::CurveEditorModel
Init ==
    /\ nodes = << Node(1, Point(minX, minY)),
                  Node(2, Point(minX + (maxX - minX) \div 2, minY + (maxY - minY) \div 2)),
                  Node(3, Point(maxX, maxY)) >>
    /\ selectedHandle = NoHandle
    /\ edits = 0
    /\ lastEvent = Event("none", "none", NoHandle, FALSE)
    /\ midiInputModel = Indeterminate
    /\ midiOutputModel = Indeterminate
    /\ lastInputValue = Fraction(0, 1)
    /\ midi = << >>
    /\ block = NoBlock
    /\ blocks = 0
    /\ audio = AudioIdle
    /\ fifo = [validStart |-> 0, validEnd |-> 0]
    /\ messages = [i \in 0..(queueSize - 1) |-> MidiEvent(DefaultMessage, 0)]
    /\ pushLog = << >>
    /\ timer = TimerIdle
    /\ popped = << >>
    /\ state = NoCurveState
    /\ saved = NoData
    /\ restored = NoData
    /\ loading = LoadIdle


(***************************************************************************)
(* The events the model delivers.  Positions are pixels of the component.  *)
(***************************************************************************)
\* Pointer offsets from a handle: on it, within the threshold, on the threshold.
OnHandle == Point(0, 0)
NearHandle == Point(12, 0)
OffHandle == Point(0, DISTANCE_THRESHOLD)

\* Double clicks away from every handle of the initial curve, in model space:
\* on the left edge, and between the middle and the last node, left of where
\* the control handle of the middle node is seeded.
OnLeftEdge == Point(minX, 127)
PastMiddle == Point(131, 64)
InsertPoints == { OnLeftEdge, PastMiddle }

\* Pointer travel of a drag step, in tens of pixels per coordinate (so that the
\* damped point is on the grid): far enough to reach a limit, and a short one.
DragDeltas == { <<29, 0>>, <<-29, 0>>, <<0, 29>>, <<0, -29>>, <<10, 0>> }


InComponent(s) ==
    /\ 0 <= s.x /\ s.x <= maxX - minX
    /\ 0 <= s.y /\ s.y <= maxY - minY

\* The handles getClosestHandle looks at.
ActiveHandles(ns) ==
    { h \in [node : {ns[i].id : i \in 1..Len(ns)}, which : {"anchor", "control1", "control2"}] :
        LET t == ns[IndexOf(ns, h.node)].curveType
        IN  \/ h.which = "anchor"
            \/ h.which = "control1" /\ t \in {Quadratic, Cubic}
            \/ h.which = "control2" /\ t = Cubic }

\* Presses: the left button on every handle and on the threshold around it, the
\* right button on and near every handle, any button at one more place.
HandleScreenPts(offsets) ==
    { s \in { PtAdd(transformPointToScreenSpace(PtOf(nodes, h)), o) :
                h \in ActiveHandles(nodes), o \in offsets } : InComponent(s) }

DownEvents ==
    (HandleScreenPts({OnHandle, OffHandle}) \X {"left"})
    \cup (HandleScreenPts({OnHandle, NearHandle}) \X {"right"})
    \cup ({transformPointToScreenSpace(PastMiddle)} \X {"left", "right", "middle"})

\* Double clicks: on every handle, and at the two places away from them.
DoubleClickPositions ==
    HandleScreenPts({OnHandle})
    \cup { transformPointToScreenSpace(p) : p \in InsertPoints }

\* The pointer of the drag step before, when the button is still held there
\* and its distance from the selected handle is a whole number of damping steps.
HeldPointer ==
    IF lastEvent.op = "mouseDrag" /\ selectedHandle # NoHandle
       /\ IndexOf(nodes, selectedHandle.node) # 0
    THEN LET d == PtSub(lastEvent.at, PtOf(nodes, selectedHandle))
         IN  IF d.x % DampDen = 0 /\ d.y % DampDen = 0 /\ d # Point(0, 0)
             THEN { transformPointToScreenSpace(lastEvent.at) }
             ELSE {}
    ELSE {}

DragPositions ==
    IF selectedHandle # NoHandle /\ IndexOf(nodes, selectedHandle.node) # 0
    THEN { transformPointToScreenSpace(
              PtAdd(PtOf(nodes, selectedHandle), Point(DampDen * d[1], DampDen * d[2]))) :
           d \in DragDeltas }
         \cup HeldPointer
    ELSE { transformPointToScreenSpace(Point(minX, minY)) }

\* Inputs of compute: one model unit outside the bounds on either side, every
\* anchor x, and the middle of every segment.
ComputeInputs ==
    { minX - Scale, maxX + Scale }
    \cup { nodes[i].anchor.x : i \in 1..Len(nodes) }
    \cup { (nodes[i - 1].anchor.x + nodes[i].anchor.x) \div 2 : i \in 2..Len(nodes) }

\* Those of them inside the bounds of the model.
DomainInputs == { x \in ComputeInputs : minX <= x /\ x <= maxX }

\* Direct calls of addPoint outside the bounds: left of minX, right of maxX.
ApiPoints == { Point(minX - Scale, 127), Point(maxX + Scale, 127) }

\* CurveEditor::addPoint called on its own, with any point.
addPointCall(p) ==
    /\ lastEvent' = EventAt("addPoint", NoHandle, FALSE, p)
    /\ nodes' = addPoint(nodes, p)
    /\ UNCHANGED selectedHandle
    /\ Counted

\* The component gets mouseDoubleClick when the second click is released, after
\* its mouseUp, so no handle is selected then.
Next ==
    \/ \E e \in DownEvents : mouseDown(e[1], e[2]) /\ UNCHANGED pluginVars
    \/ \E p \in DragPositions : mouseDrag(p) /\ UNCHANGED pluginVars
    \/ mouseUp /\ UNCHANGED pluginVars
    \/ /\ selectedHandle = NoHandle
       /\ \E p \in DoubleClickPositions : mouseDoubleClick(p)
       /\ UNCHANGED pluginVars

\* The mouse handlers alone: what the editor component does with pointer events.
Spec == Init /\ [][Next]_vars

NextApi ==
    \/ Next
    \/ \E p \in ApiPoints : addPointCall(p) /\ UNCHANGED pluginVars

\* The mouse handlers, and addPoint as a public method called with any point.
SpecApi == Init /\ [][NextApi]_vars

\* Double clicks on the anchors.
AnchorPositions ==
    { s \in { transformPointToScreenSpace(nodes[i].anchor) : i \in 1..Len(nodes) } :
        InComponent(s) }

\* mouseDoubleClick on an anchor, outside the count of edits: the requests to
\* change a node's type may go on for ever.
typeChange(mousePt) ==
    /\ DoubleClicked(mousePt)
    /\ UNCHANGED edits

NextTypes == \E p \in AnchorPositions : typeChange(p) /\ UNCHANGED pluginVars

\* The editor under type changes only, any number of them.
SpecTypes == Init /\ [][NextTypes]_vars

\* The messages of the MIDI buffers: a controller change of controller 0, a
\* note on, a pitch wheel position in the middle of its range, and a note off.
MidiMessages ==
    { Message("controller", 1, 0, 64), Message("noteOn", 2, 60, 100),
      Message("pitchWheel", 1, 0, PitchRange \div 2), Message("noteOff", 1, 60, 0) }

\* The buffers process is given: none, one or two messages, the first at
\* sample 0 and the second at sample 1.
MidiBlocks ==
    { << >> }
    \cup { << MidiEvent(m, 0) >> : m \in MidiMessages }
    \cup { << MidiEvent(m[1], 0), MidiEvent(m[2], 1) >> : m \in MidiMessages \X MidiMessages }

\* The items of the two dropdowns the model selects: Velocity, Pitch and
\* controller 0 for the input, Pitch and controller 0 for the output.
InputIds == {VELOCITY_DROPDOWN_ID, PITCH_DROPDOWN_ID, 1}
OutputIds == {PITCH_DROPDOWN_ID, 1}

\* A double click on the anchor of the middle node.
MiddleAnchor == { transformPointToScreenSpace(nodes[2].anchor) }

\* The dropdowns and the curve are set before the first buffer arrives.
NextMidi ==
    \/ \E b \in MidiBlocks : process(b)
    \/ pushWrite
    \/ pushFinish
    \/ blocks = 0 /\ \E id \in InputIds : midiInputChanged(id)
    \/ blocks = 0 /\ \E id \in OutputIds : midiOutputChanged(id)
    \/ blocks = 0 /\ \E p \in MiddleAnchor : typeChange(p) /\ UNCHANGED pluginVars

\* The processor: the two dropdowns, type changes of the middle node of the
\* curve, and process on the audio thread.
SpecMidi == Init /\ [][NextMidi]_vars

\* Blocks of state that did not come from getStateInformation: one that is no
\* XML, a tree without the child "curveState", one whose "curveState" has no
\* children, one whose only node has no anchor and no control points, one
\* whose second node has an anchor only, and the straight line of two nodes.
ForeignData ==
    { Data("unreadable", FALSE, NoCurveState, << >>),
      Data("noCurveState", TRUE, NoCurveState, << >>),
      Data("noChildren", TRUE, CurveState(<< >>), << >>),
      Data("childWithoutFields", TRUE, CurveState(<< [curveType |-> Quadratic] >>), << >>),
      Data("childWithoutControls", TRUE,
           CurveState(<< toValueTree(Node(1, Point(minX, minY))),
                         [curveType |-> Linear, anchor |-> Point(maxX, maxY)] >>), << >>),
      Data("wellFormed", TRUE,
           CurveState(StateTree(<< Node(1, Point(minX, minY)),
                                   Node(2, Point(maxX, maxY)) >>)), << >>) }

\* The blocks the host can hand to setStateInformation.
StateData == ForeignData \cup { d \in {saved} : d.kind = "saved" }

\* A buffer with one controller change of controller 0.
ControllerBlocks == { << MidiEvent(Message("controller", 1, 0, 64), 0) >> }

\* The host saves and restores the state and double clicks edit the curve,
\* all on the message thread, one handler at a time but for the loop of
\* fromValueTree; the audio thread runs process at any time.
NextState ==
    \/ getStateInformation
    \/ \E d \in StateData : setStateInformation(d)
    \/ loadStep
    \/ /\ loading.pc = "idle"
       /\ \E p \in DoubleClickPositions : mouseDoubleClick(p)
       /\ UNCHANGED pluginVars
    \/ \E id \in {1} : midiInputChanged(id)
    \/ \E b \in ControllerBlocks : process(b)
    \/ pushWrite
    \/ pushFinish

SpecState == Init /\ [][NextState]_vars

\* The pointer presses, drags, releases and double clicks on the editor, and
\* the host restores state; all handlers run on the message thread, so a
\* pointer event is delivered only between two loads, never inside one.
NextSelect ==
    \/ /\ loading.pc = "idle"
       /\ \E e \in DownEvents : mouseDown(e[1], e[2])
       /\ UNCHANGED pluginVars
    \/ /\ loading.pc = "idle"
       /\ \E p \in DragPositions : mouseDrag(p)
       /\ UNCHANGED pluginVars
    \/ /\ loading.pc = "idle"
       /\ mouseUp
       /\ UNCHANGED pluginVars
    \/ /\ loading.pc = "idle" /\ selectedHandle = NoHandle
       /\ \E p \in DoubleClickPositions : mouseDoubleClick(p)
       /\ UNCHANGED pluginVars
    \/ \E d \in ForeignData : setStateInformation(d)
    \/ loadStep

SpecSelect == Init /\ [][NextSelect]_vars

\* Buffers of note offs, which process forwards whatever the dropdowns hold:
\* up to one message more than the queue has slots, each with a note number
\* of its own.
NoteOffBlocks ==
    { [i \in 1..n |-> MidiEvent(Message("noteOff", 1, Len(pushLog) + i, 0), 0)] :
        n \in 1..(queueSize + 1) }

NextQueue ==
    \/ \E b \in NoteOffBlocks : process(b)
    \/ pushWrite
    \/ pushFinish
    \/ timerCallback
    \/ popCopy
    \/ popFinish

\* The queue between the audio thread, which pushes at the end of process, and
\* the timer thread, which pops; the steps of the two interleave.
SpecQueue == Init /\ [][NextQueue]_vars



(***************************************************************************)
(* The claims.                                                             *)
(***************************************************************************)
NodeIndices == 1..Len(nodes)

AllNodes == { nodes[i] : i \in NodeIndices }

\* The node with this address after the step.
NodeAfter(id) == nodes'[IndexOf(nodes', id)]

\* C1: after any sequence of editor operations the node sequence is sorted by
\* non-decreasing anchor.x (the assertion inside compute never fails).
C1_NodesSorted ==
    \A i \in 2..Len(nodes) : nodes[i - 1].anchor.x <= nodes[i].anchor.x

\* C2: after any sequence of drags, insertions (addPoint with any point),
\* deletions and type cycles, the first node's anchor.x is minX and the last
\* node's anchor.x is maxX.
C2_EndpointsPinned ==
    /\ nodes[1].anchor.x = minX
    /\ nodes[Len(nodes)].anchor.x = maxX

\* C3: after any sequence of editor operations the model holds at least 2
\* nodes; no sequence of deletions brings the count below 2.
C3_AtLeastTwoNodes == Len(nodes) >= 2

\* Two nodes are left, and a delete request on one of them has just been refused.
C3_Witness ==
    /\ Len(nodes) = 2
    /\ lastEvent.op = "mouseDown" /\ lastEvent.button = "right" /\ lastEvent.within
    /\ IndexOf(nodes, lastEvent.handle.node) # 0

\* C4: a delete request (right-button press within the threshold) whose closest
\* handle belongs to the node that is first or last in the sequence leaves the
\* node count, the node order and every node's contents unchanged.
C4_EndpointDeleteIsNoOp ==
    [][ ( /\ lastEvent'.op = "mouseDown"
          /\ lastEvent'.button = "right"
          /\ lastEvent'.within
          /\ lastEvent'.handle.node \in {nodes[1].id, nodes[Len(nodes)].id} )
        => nodes' = nodes ]_vars

\* A delete request on a handle of the last node has just been handled, in a
\* curve that still has an inner node.
C4_Witness ==
    /\ lastEvent.op = "mouseDown" /\ lastEvent.button = "right" /\ lastEvent.within
    /\ lastEvent.handle.node = nodes[Len(nodes)].id
    /\ Len(nodes) >= 3

\* Whether the step is a drag step on the anchor of the node at index i that
\* takes its anchor.x across the anchor.x of the node at index k.
DragCrosses(i, k) ==
    /\ lastEvent'.op = "mouseDrag"
    /\ selectedHandle = [node |-> nodes[i].id, which |-> "anchor"]
    /\ Len(nodes') = Len(nodes)
    /\ \/ /\ k = i + 1
          /\ nodes[i].anchor.x <= nodes[k].anchor.x
          /\ NodeAfter(nodes[i].id).anchor.x > nodes[k].anchor.x
       \/ /\ k = i - 1
          /\ nodes[k].anchor.x <= nodes[i].anchor.x
          /\ NodeAfter(nodes[i].id).anchor.x < nodes[k].anchor.x

\* C5: when a drag step moves a node's anchor so that its anchor.x has crossed
\* the anchor.x of an adjacent node, the two nodes exchange positions in the
\* sequence and the selection still refers to the dragged handle.
C5_DragThroughReorder ==
    [][ \A i \in NodeIndices : \A k \in {i - 1, i + 1} \cap NodeIndices :
            DragCrosses(i, k) =>
                /\ nodes'[k].id = nodes[i].id
                /\ nodes'[i].id = nodes[k].id
                /\ selectedHandle' = selectedHandle ]_vars

InBounds(p) ==
    /\ minX <= p.x /\ p.x <= maxX
    /\ minY <= p.y /\ p.y <= maxY

\* C6: in every state reached by drags, insertions from in-bounds points,
\* deletions and type cycles, every handle coordinate of every node (anchor,
\* control1 and control2) lies inside [minX,maxX] x [minY,maxY].
C6_HandlesInBounds ==
    \A n \in AllNodes : InBounds(n.anchor) /\ InBounds(n.control1) /\ InBounds(n.control2)

\* The indices i (counted from 1; the right nodes of the segments) whose anchor
\* is not left of x, and the smallest of them: the segment the spec's
\* algorithm selects for x.
RightCandidates(x) == { i \in 2..Len(nodes) : nodes[i].anchor.x >= x }

SelectedIndex(x) ==
    CHOOSE i \in RightCandidates(x) : \A k \in RightCandidates(x) : i <= k

\* Whether two results of compute are the same float.
SameValue(a, b) == a.kind = b.kind /\ a.num = b.num /\ a.den = b.den

\* Whether the result is the number y0 + (y1 - y0) * (x - x0) / (x1 - x0).
IsInterpolation(r, p0, p1, x) ==
    /\ r.kind = "value"
    /\ r.num * (p1.x - p0.x)
         = (p0.y * (p1.x - p0.x) + (p1.y - p0.y) * (x - p0.x)) * r.den

\* C7: for x lying in the Linear segment that compute selects, between anchors
\* (x0,y0) and (x1,y1) with x0 < x1, compute(x) equals the exact linear
\* interpolation y0 + (y1-y0)*(x-x0)/(x1-x0).
C7_LinearIsInterpolation ==
    \A x \in ComputeInputs :
        RightCandidates(x) # {} =>
            LET i == SelectedIndex(x)
                p0 == nodes[i - 1].anchor
                p1 == nodes[i].anchor
            IN  ( /\ nodes[i - 1].curveType = Linear
                  /\ p0.x < p1.x
                  /\ p0.x <= x /\ x <= p1.x )
                => IsInterpolation(compute(nodes, x), p0, p1, x)

\* After an edit, some input lies strictly inside a sloped Linear segment that
\* does not start at y = 0, and compute returns the interpolated value there.
C7_Witness ==
    /\ edits >= 1
    /\ \E x \in DomainInputs :
          /\ RightCandidates(x) # {}
          /\ LET i == SelectedIndex(x)
                 p0 == nodes[i - 1].anchor
                 p1 == nodes[i].anchor
             IN  /\ nodes[i - 1].curveType = Linear
                 /\ p0.x < x /\ x < p1.x
                 /\ p0.y # p1.y /\ p0.y # 0
                 /\ IsInterpolation(compute(nodes, x), p0, p1, x)

\* The node with another curve type and other control handles.
Scrambled(n, t) ==
    [n EXCEPT !.curveType = t,
              !.control1 = PtAdd(n.control1, Point(7, -3)),
              !.control2 = PtAdd(n.control2, Point(-11, 9))]

\* C8: compute(x) evaluates exactly one segment, the segment (nodes[i-1],
\* nodes[i]) with the smallest i such that nodes[i].anchor.x >= x, with the
\* interpolation kind of the left node; the type and the control handles of the
\* right node (of the last node in particular) never influence the result.
C8_OneSegmentLeftKind ==
    \A x \in ComputeInputs :
        RightCandidates(x) # {} =>
            LET i == SelectedIndex(x)
                r == compute(nodes, x)
            IN  \A t \in (0..(CurveTypeCount - 1)) \ {nodes[i].curveType} :
                    SameValue(r, compute(<< nodes[i - 1], Scrambled(nodes[i], t) >>, x))

\* Some input lies strictly inside a segment whose left node is Quadratic or
\* Cubic and whose right node has another type, and compute returns a number.
C8_Witness ==
    \E x \in DomainInputs :
        /\ RightCandidates(x) # {}
        /\ LET i == SelectedIndex(x)
           IN  /\ nodes[i - 1].curveType \in {Quadratic, Cubic}
               /\ nodes[i].curveType # nodes[i - 1].curveType
               /\ nodes[i - 1].anchor.x < x /\ x < nodes[i].anchor.x
               /\ compute(nodes, x).kind = "value"

\* C9: compute(x) with x outside [first.anchor.x, last.anchor.x], below the
\* first anchor or above the last one, fails with an explicit domain error and
\* never returns an ordinary number as if the evaluation had succeeded.  (An
\* assertion failure is counted as such an error here.)
C9_OutOfRangeIsError ==
    \A x \in ComputeInputs :
        (x < nodes[1].anchor.x \/ x > nodes[Len(nodes)].anchor.x)
        => LET r == compute(nodes, x)
           IN  r.kind # "value" \/ r.asserted

\* C10: whenever compute(x) with x in [minX,maxX] selects a Linear segment
\* whose two anchors have equal x, the case is guarded: the result is the left
\* anchor's y (the code has no error result), never a division by zero.
C10_LinearNeverDividesByZero ==
    \A x \in DomainInputs :
        RightCandidates(x) # {} =>
            LET i == SelectedIndex(x)
                r == compute(nodes, x)
            IN  ( /\ nodes[i - 1].curveType = Linear
                  /\ nodes[i - 1].anchor.x = nodes[i].anchor.x )
                => /\ r.kind = "value"
                   /\ r.num = nodes[i - 1].anchor.y * r.den

\* The Bezier curve of the segment (left, right) at sample j, one coordinate
\* ("x" or "y"), and the power of SampleCount it is scaled by.
BezierAt(left, right, c, j) ==
    IF left.curveType = Cubic
    THEN computeCubic(left.anchor[c], left.control1[c], left.control2[c], right.anchor[c], j)
    ELSE computeQuadratic(left.anchor[c], left.control1[c], right.anchor[c], j)

BezierDen(left) == IF left.curveType = Cubic THEN CubicDen ELSE QuadraticDen

\* |BezierX(j / SampleCount) - x|, scaled.
SampleDistance(left, right, x, j) ==
    Abs(BezierAt(left, right, "x", j) - x * BezierDen(left))

\* Whether sample j is a nearest sample for x and the lowest such.
IsLowestNearest(left, right, x, j) ==
    LET dj == SampleDistance(left, right, x, j)
    IN  \A k \in 0..SampleCount :
            LET dk == SampleDistance(left, right, x, k)
            IN  dj <= dk /\ (k < j => dj < dk)

\* C11: for a Quadratic or Cubic segment, compute(x) returns the Bezier y at
\* the grid parameter t = j/100, j in 0..100, that minimises |BezierX(t) - x|
\* over the 101 grid points; among several minimising grid points the lowest.
C11_BezierNearestSample ==
    [](\A x \in ComputeInputs :
        RightCandidates(x) # {} =>
            LET i == SelectedIndex(x)
                left == nodes[i - 1]
                right == nodes[i]
                r == compute(nodes, x)
            IN  left.curveType \in {Quadratic, Cubic} =>
                    \E j \in 0..SampleCount :
                        /\ SameValue(r, Value(BezierAt(left, right, "y", j),
                                              BezierDen(left), FALSE))
                        /\ IsLowestNearest(left, right, x, j))

\* Some input selects a Bezier segment in which two samples are equally near
\* and nearest, and compute returns the y of one strictly inside the segment.
C11_Witness ==
    \E x \in ComputeInputs :
        /\ RightCandidates(x) # {}
        /\ LET i == SelectedIndex(x)
               left == nodes[i - 1]
               right == nodes[i]
               r == compute(nodes, x)
           IN  /\ left.curveType \in {Quadratic, Cubic}
               /\ \E j \in 1..(SampleCount - 1) :
                     /\ SameValue(r, Value(BezierAt(left, right, "y", j),
                                           BezierDen(left), FALSE))
                     /\ IsLowestNearest(left, right, x, j)
                     /\ \E k \in (j + 1)..SampleCount :
                           SampleDistance(left, right, x, k) = SampleDistance(left, right, x, j)

\* The contents of a node, its address left out.
Contents(n) ==
    [curveType |-> n.curveType, anchor |-> n.anchor,
     control1 |-> n.control1, control2 |-> n.control2]

\* C12: serialising every node with toValueTree into an ordered tree and
\* loading that tree with fromValueTree yields the same node count, the same
\* order, and for each node the same curveType, anchor, control1 and control2.
C12_TreeRoundTrip ==
    LET loaded == fromValueTree(StateTree(nodes))
    IN  /\ Len(loaded) = Len(nodes)
        /\ \A i \in NodeIndices : Contents(loaded[i]) = Contents(nodes[i])

\* A curve with an inserted node and a node whose control handle is off its
\* anchor, which the round trip reproduces.
C12_Witness ==
    /\ Len(nodes) > 3
    /\ \E n \in AllNodes : n.curveType # Linear /\ n.control1 # n.anchor
    /\ C12_TreeRoundTrip

\* Whether the step is a double click within the threshold of the anchor of
\* the node at index i.
TypeChangeOn(i) ==
    /\ lastEvent'.op = "mouseDoubleClick"
    /\ lastEvent'.within
    /\ lastEvent'.handle = [node |-> nodes[i].id, which |-> "anchor"]
    /\ Len(nodes') = Len(nodes)

SeedControl1(n) == PtAdd(n.anchor, Point(ControlOffset * Scale, 0))
SeedControl2(n) == PtAdd(n.anchor, Point(0, ControlOffset * Scale))

\* C13: repeated type changes on a node that is not the last cycle its type
\* Linear -> Quadratic -> Cubic -> Linear, and each transition re-seeds the
\* controls: to Quadratic control1 = anchor + (5,0); to Cubic control1 =
\* anchor + (5,0) and control2 = anchor + (0,5); to Linear control1 = anchor.
C13_TypeCycle ==
    [][ \A i \in 1..(Len(nodes) - 1) :
            TypeChangeOn(i) =>
                LET n == nodes[i]
                    m == nodes'[i]
                IN  /\ m.id = n.id /\ m.anchor = n.anchor
                    /\ n.curveType = Linear =>
                          m.curveType = Quadratic /\ m.control1 = SeedControl1(n)
                    /\ n.curveType = Quadratic =>
                          /\ m.curveType = Cubic
                          /\ m.control1 = SeedControl1(n)
                          /\ m.control2 = SeedControl2(n)
                    /\ n.curveType = Cubic =>
                          m.curveType = Linear /\ m.control1 = n.anchor ]_vars

\* A node that is not the last has just become Linear again, after having been
\* Cubic (its control2 is still where the change to Cubic put it).
C13_Witness ==
    /\ lastEvent.op = "mouseDoubleClick" /\ lastEvent.within
    /\ \E i \in 1..(Len(nodes) - 1) :
          /\ lastEvent.handle = [node |-> nodes[i].id, which |-> "anchor"]
          /\ nodes[i].curveType = Linear
          /\ nodes[i].control1 = nodes[i].anchor
          /\ nodes[i].control2 = SeedControl2(nodes[i])

\* C14: a type change requested on the last node towards Quadratic or Cubic
\* is a no-op: the last node's curveType and control handles are unchanged.
C14_LastNodeTypeChangeIsNoOp ==
    [][ ( /\ TypeChangeOn(Len(nodes))
          /\ (nodes[Len(nodes)].curveType + 1) % CurveTypeCount \in {Quadratic, Cubic} )
        => nodes'[Len(nodes)] = nodes[Len(nodes)] ]_vars

\* Whether the step is a request to insert a point: a call of addPoint, or a
\* double click that is not a type change.
InsertionRequest ==
    \/ lastEvent'.op = "addPoint"
    \/ /\ lastEvent'.op = "mouseDoubleClick"
       /\ ~(lastEvent'.within /\ lastEvent'.handle.which = "anchor")

\* The nodes whose anchor is not left of p.
NotLeftOf(p) == { i \in NodeIndices : nodes[i].anchor.x >= p.x }

Sorted(ns) == \A i \in 2..Len(ns) : ns[i - 1].anchor.x <= ns[i].anchor.x

\* C15: inserting a point p places the new node immediately before the first
\* existing node whose anchor.x >= p.x (a tie inserts before the equal node),
\* leaves all existing nodes and their relative order unchanged, and preserves
\* the sortedness of a sorted sequence.
C15_InsertBeforeFirstNotLeft ==
    [][ (InsertionRequest /\ NotLeftOf(lastEvent'.at) # {}) =>
            LET p == lastEvent'.at
                k == CHOOSE i \in NotLeftOf(p) : \A j \in NotLeftOf(p) : i <= j
            IN  /\ Len(nodes') = Len(nodes) + 1
                /\ nodes'[k].anchor = p
                /\ \A j \in NodeIndices : nodes'[k].id # nodes[j].id
                /\ \A j \in 1..(k - 1) : nodes'[j] = nodes[j]
                /\ \A j \in k..Len(nodes) : nodes'[j + 1] = nodes[j]
                /\ Sorted(nodes) => Sorted(nodes') ]_vars

\* A point has just been inserted before a node with the same anchor.x, into
\* a sorted sequence.
C15_Witness ==
    /\ lastEvent.op = "mouseDoubleClick" /\ ~lastEvent.within
    /\ \E k \in 1..(Len(nodes) - 1) :
          /\ nodes[k].anchor = lastEvent.at
          /\ nodes[k + 1].anchor.x = lastEvent.at.x
          /\ nodes[k + 1].anchor # lastEvent.at
    /\ Sorted(nodes)

\* C16: moving a node's anchor to a new point translates control1 and control2
\* of that node by the same delta (control1 - anchor and control2 - anchor are
\* the same before and after the move); no other node is modified.
C16_AnchorMoveTranslatesControls ==
    [][ ( /\ lastEvent'.op = "mouseDrag"
          /\ selectedHandle # NoHandle
          /\ selectedHandle.which = "anchor" )
        => LET i == IndexOf(nodes, selectedHandle.node)
               n == nodes[i]
               m == nodes'[i]
           IN  /\ Len(nodes') = Len(nodes)
               /\ m.id = n.id /\ m.curveType = n.curveType
               /\ PtSub(m.control1, m.anchor) = PtSub(n.control1, n.anchor)
               /\ PtSub(m.control2, m.anchor) = PtSub(n.control2, n.anchor)
               /\ \A j \in NodeIndices \ {i} : nodes'[j] = nodes[j] ]_vars

\* A drag step has just moved the anchor of the middle node of the constructor
\* away from where it was made, with its control1 off the anchor.
C16_Witness ==
    /\ lastEvent.op = "mouseDrag"
    /\ lastEvent.handle = [node |-> 2, which |-> "anchor"]
    /\ \E i \in NodeIndices :
          /\ nodes[i].id = 2
          /\ nodes[i].anchor # Point(127, 127)
          /\ nodes[i].control1 = SeedControl1(nodes[i])

\* The places the model presses and double-clicks at, in screen space.
QueryPoints == { e[1] : e \in DownEvents } \cup DoubleClickPositions

\* The place of a handle in the order getClosestHandle meets the handles in.
MeetingOrder(h) ==
    3 * IndexOf(nodes, h.node)
        + (IF h.which = "anchor" THEN 0 ELSE IF h.which = "control1" THEN 1 ELSE 2)

\* The squared distance, in model space, from a handle to a screen point.
ModelDistSq(h, q) == DistSq(transformPointFromScreenSpace(q), PtOf(nodes, h))

\* C17: getClosestHandle returns, among the active handles only (every anchor;
\* control1 only for Quadratic or Cubic nodes; control2 only for Cubic nodes),
\* a handle at minimal Euclidean distance in model space from the query point;
\* on equal distance the handle met first in node order (anchor, control1,
\* control2 within a node) wins; it returns none only when there are no nodes.
C17_ClosestActiveHandle ==
    \A q \in QueryPoints :
        LET h == getClosestHandle(nodes, q)
        IN  /\ h # NoHandle
            /\ h \in ActiveHandles(nodes)
            /\ \A g \in ActiveHandles(nodes) :
                  /\ ModelDistSq(h, q) <= ModelDistSq(g, q)
                  /\ ModelDistSq(g, q) = ModelDistSq(h, q)
                        => MeetingOrder(h) <= MeetingOrder(g)
            /\ getClosestHandle(<< >>, q) = NoHandle

\* For some query point two active handles are nearest at the same distance,
\* an inactive control handle of another node is nearer than both, and the
\* handle returned is the one met first.
C17_Witness ==
    \E q \in QueryPoints :
        LET h == getClosestHandle(nodes, q)
        IN  /\ \E g \in ActiveHandles(nodes) \ {h} :
                  ModelDistSq(g, q) = ModelDistSq(h, q)
            /\ \E n \in AllNodes :
                  /\ n.curveType = Linear
                  /\ n.control2 # n.anchor
                  /\ DistSq(transformPointFromScreenSpace(q), n.control2) < ModelDistSq(h, q)
            /\ \A g \in ActiveHandles(nodes) : MeetingOrder(h) <= MeetingOrder(g)
                  \/ ModelDistSq(h, q) < ModelDistSq(g, q)

\* C18: the editor goes from Idle (no handle selected) to Selected only on a
\* primary-button press whose closest handle is within the distance threshold;
\* any release returns it to Idle; a press farther than the threshold from its
\* closest handle (so from every handle) leaves or puts it in Idle; and a drag
\* event received while Idle changes nothing in the model.
C18_SelectionStateMachine ==
    [][ /\ (selectedHandle = NoHandle /\ selectedHandle' # NoHandle)
            => /\ lastEvent'.op = "mouseDown"
               /\ lastEvent'.button = "left"
               /\ lastEvent'.within
               /\ selectedHandle' = lastEvent'.handle
        /\ lastEvent'.op = "mouseUp" => selectedHandle' = NoHandle
        /\ (lastEvent'.op = "mouseDown" /\ ~lastEvent'.within)
            => selectedHandle' = NoHandle /\ nodes' = nodes
        /\ (lastEvent'.op = "mouseDrag" /\ selectedHandle = NoHandle)
            => selectedHandle' = NoHandle /\ nodes' = nodes ]_vars

\* A release has just returned the editor to Idle after a drag had moved a
\* handle of the curve.
C18_Witness ==
    /\ lastEvent.op = "mouseUp"
    /\ selectedHandle = NoHandle
    /\ edits >= 1
    /\ \E n \in AllNodes : n.id = 2 /\ n.anchor # Point(127, 127)

\* C19: a secondary-button press within the threshold whose closest handle
\* (anchor or control handle) belongs to a node that is neither first nor last
\* removes exactly that node, keeps all other nodes and their order, and
\* leaves the editor Idle (no handle selected).
C19_DeleteRemovesThatNode ==
    [][ ( /\ lastEvent'.op = "mouseDown"
          /\ lastEvent'.button = "right"
          /\ lastEvent'.within
          /\ lastEvent'.handle.node \notin {nodes[1].id, nodes[Len(nodes)].id} )
        => LET i == IndexOf(nodes, lastEvent'.handle.node)
           IN  /\ i # 0
               /\ Len(nodes') = Len(nodes) - 1
               /\ \A j \in 1..(i - 1) : nodes'[j] = nodes[j]
               /\ \A j \in i..(Len(nodes) - 1) : nodes'[j] = nodes[j + 1]
               /\ selectedHandle' = NoHandle ]_vars

\* A node has just been deleted by a press on its control handle, and the two
\* end nodes of the constructor are what is left.
C19_Witness ==
    /\ lastEvent.op = "mouseDown" /\ lastEvent.button = "right" /\ lastEvent.within
    /\ lastEvent.handle.which = "control1"
    /\ IndexOf(nodes, lastEvent.handle.node) = 0
    /\ Len(nodes) = 2 /\ nodes[1].id = 1 /\ nodes[2].id = 3
    /\ selectedHandle = NoHandle

\* C20: a double click whose closest handle is within the threshold cycles the
\* type of that handle's node and inserts no node, whatever kind of handle it
\* is (anchor, control1 or control2); a double click farther than the
\* threshold from its closest handle inserts exactly one new node at the
\* clicked place and changes no type.
C20_DoubleClickCyclesOrInserts ==
    [][ lastEvent'.op = "mouseDoubleClick" =>
            IF lastEvent'.within
            THEN LET i == IndexOf(nodes, lastEvent'.handle.node)
                 IN  /\ Len(nodes') = Len(nodes)
                     /\ nodes'[i].curveType = (nodes[i].curveType + 1) % CurveTypeCount
            ELSE /\ Len(nodes') = Len(nodes) + 1
                 /\ \E k \in 1..Len(nodes') :
                       /\ nodes'[k].anchor = lastEvent'.at
                       /\ \A j \in NodeIndices : nodes'[k].id # nodes[j].id
                       /\ \A j \in 1..(k - 1) : nodes'[j] = nodes[j]
                       /\ \A j \in k..Len(nodes) : nodes'[j + 1] = nodes[j] ]_vars


\* A drag step of a selected handle: the handler was mouseDrag and a handle was
\* selected when it ran.
DragStep == lastEvent'.op = "mouseDrag" /\ selectedHandle # NoHandle

\* v limited to lo..hi.
Limited(lo, hi, v) == IF v < lo THEN lo ELSE IF v > hi THEN hi ELSE v

\* The x range a drag step leaves the handles of node i in.
DragRangeX(i) ==
    IF i = 1 THEN <<minX, minX>>
    ELSE IF i = Len(nodes) THEN <<maxX, maxX>>
    ELSE <<minX + InnerMargin * Scale, maxX - InnerMargin * Scale>>

\* C23: a drag step moves the selected handle from its place s towards the
\* pointer m to s + 0.9 * (m - s), not to m, and only then applies the limits;
\* the distance to the pointer shrinks to a tenth with each step, so repeated
\* steps with the pointer held in one place converge towards it.
C23_DragIsDamped ==
    [][ DragStep =>
            LET i == IndexOf(nodes, selectedHandle.node)
                s == PtOf(nodes, selectedHandle)
                m == lastEvent'.at
                p == PtOf(nodes', selectedHandle)
                dx == s.x + (DampNum * (m.x - s.x)) \div DampDen
                dy == s.y + (DampNum * (m.y - s.y)) \div DampDen
            IN  /\ DampDen * (dx - s.x) = DampNum * (m.x - s.x)
                /\ DampDen * (dy - s.y) = DampNum * (m.y - s.y)
                /\ DampDen * Abs(m.x - dx) = Abs(m.x - s.x)
                /\ DampDen * Abs(m.y - dy) = Abs(m.y - s.y)
                /\ m # s => Point(dx, dy) # m
                /\ p.x = Limited(DragRangeX(i)[1], DragRangeX(i)[2], dx)
                /\ p.y = Limited(minY, maxY, dy) ]_vars

\* Two drag steps with the pointer held 50 model units to the right of the
\* handle have brought the handle from 100 grid steps away to 10 and then to 1.
C23_Witness ==
    /\ lastEvent.op = "mouseDrag"
    /\ lastEvent.handle # NoHandle
    /\ IndexOf(nodes, lastEvent.handle.node) # 0
    /\ lastEvent.at.x - PtOf(nodes, lastEvent.handle).x = 1
    /\ lastEvent.at.y = PtOf(nodes, lastEvent.handle).y

\* C25: after a drag step on a handle of a node that is neither the first nor
\* the last, that handle's x lies in [minX + 1, maxX - 1] and its y in
\* [minY, maxY]; after a drag step on the anchor of the first node its x is
\* minX, and on the anchor of the last node its x is maxX.
C25_DragStaysInRange ==
    [][ DragStep =>
            LET i == IndexOf(nodes, selectedHandle.node)
                p == PtOf(nodes', selectedHandle)
            IN  /\ (1 < i /\ i < Len(nodes)) =>
                       /\ minX + Scale <= p.x /\ p.x <= maxX - Scale
                       /\ minY <= p.y /\ p.y <= maxY
                /\ (i = 1 /\ selectedHandle.which = "anchor") => p.x = minX
                /\ (i = Len(nodes) /\ selectedHandle.which = "anchor") => p.x = maxX ]_vars

\* A drag step whose pointer was to the right of maxX has left the handle of an
\* inner node on maxX - 1.
C25_Witness ==
    /\ lastEvent.op = "mouseDrag"
    /\ lastEvent.handle # NoHandle
    /\ LET i == IndexOf(nodes, lastEvent.handle.node)
       IN  /\ 1 < i /\ i < Len(nodes)
           /\ lastEvent.at.x > maxX
           /\ PtOf(nodes, lastEvent.handle).x = maxX - Scale


\* The sample index compute ends its sampling loop with for a Bezier segment.
ChosenSample(left, right, x) ==
    SampleLoop([j \in 0..SampleCount |-> BezierAt(left, right, "x", j)],
               x * BezierDen(left), 0, SampleCount).finalT

\* Queries for the accuracy of the sampling: the inputs of compute and the
\* points one model unit left of every anchor.
AccuracyInputs ==
    ComputeInputs \cup { nodes[i].anchor.x - Scale : i \in 2..Len(nodes) }

\* The Bezier segments compute selects for the accuracy queries x that lie
\* between the anchors of the selected segment, as <<left, right, x>>.
AccuracyCases ==
    { <<nodes[SelectedIndex(x) - 1], nodes[SelectedIndex(x)], x>> :
        x \in { q \in AccuracyInputs :
                  /\ RightCandidates(q) # {}
                  /\ nodes[SelectedIndex(q) - 1].curveType \in {Quadratic, Cubic}
                  /\ nodes[SelectedIndex(q) - 1].anchor.x <= q } }

\* The largest distance in x between two consecutive samples, scaled.
LargestGap(left, right) ==
    LET xs == [j \in 0..SampleCount |-> BezierAt(left, right, "x", j)]
        gaps == { Abs(xs[j] - xs[j - 1]) : j \in 1..SampleCount }
    IN  CHOOSE g \in gaps : \A h \in gaps : h <= g

\* C24 as stated: for every Quadratic or Cubic segment and every query x
\* between its anchors, the Bezier x of the sample compute chooses differs from
\* x by at most a hundredth of the segment's x span.
C24_WithinHundredthOfSpan ==
    \A c \in AccuracyCases :
        SampleDistance(c[1], c[2], c[3], ChosenSample(c[1], c[2], c[3]))
            <= (c[2].anchor.x - c[1].anchor.x) * (BezierDen(c[1]) \div SampleCount)

\* C24, amended: for every Quadratic or Cubic segment and every query x between
\* its anchors, the Bezier x of the sample compute chooses differs from x by at
\* most half of the largest distance in x between two consecutive samples of
\* the segment; that distance is a hundredth of the span only when the Bezier
\* x grows evenly with t.
C24_WithinHalfLargestGap ==
    \A c \in AccuracyCases :
        2 * SampleDistance(c[1], c[2], c[3], ChosenSample(c[1], c[2], c[3]))
            <= LargestGap(c[1], c[2])

\* A query strictly between two samples of a Bezier segment whose chosen
\* sample is farther from it than a hundredth of the span.
C24_Witness ==
    \E c \in AccuracyCases :
        LET d == SampleDistance(c[1], c[2], c[3], ChosenSample(c[1], c[2], c[3]))
        IN  /\ d > (c[2].anchor.x - c[1].anchor.x) * (BezierDen(c[1]) \div SampleCount)
            /\ 2 * d <= LargestGap(c[1], c[2])


\* The calls of compute of the last call of process.
ComputeCalls == { block.calls[c] : c \in 1..Len(block.calls) }

\* Whether a fraction of model units lies in [minX, maxX].
InDomain(f) == minXUnits * f.den <= f.num /\ f.num <= maxXUnits * f.den

\* The messages process remaps with the least and the greatest value they can
\* carry: controller values and velocities of 7 bits, pitch wheel positions
\* of 14 bits.
ExtremeInputs ==
    { <<Message("controller", 1, 0, v), "controller">> : v \in {0, 127} }
    \cup { <<Message("noteOn", 1, 60, v), "velocity">> : v \in {1, 127} }
    \cup { <<Message("pitchWheel", 1, 0, v), "pitch">> : v \in {0, PitchRange - 1} }

\* C26: every call of compute that process makes passes an input inside
\* [minX, maxX] = [0, 127], whether the input is a controller value, the
\* velocity of a note on, or a pitch wheel position scaled by
\* (maxY - minY) / 2^14.
C26_ComputeInputInDomain ==
    /\ \A c \in ComputeCalls :
          /\ InDomain(c.input)
          /\ minX <= GridSteps(c.input) /\ GridSteps(c.input) <= maxX
    /\ \A e \in ExtremeInputs : InDomain(InputValue(e[1], e[2]))

\* process has remapped a pitch wheel position in the middle of its range:
\* compute was called with 63.5.
C26_Witness ==
    \E c \in ComputeCalls :
        /\ c.msg.kind = "pitchWheel"
        /\ c.msg.value = PitchRange \div 2
        /\ 2 * c.input.num = (maxXUnits - minXUnits) * c.input.den

\* The events of the buffer the last call of process was given that it does
\* not remap, in their order.
NotRemapped ==
    SelectSeq(block.input, LAMBDA ev : Branch(ev.msg, block.CC_IN) = "forward")

\* The events of a buffer that are among a set of events, in their order.
Among(buffer, events) == SelectSeq(buffer, LAMBDA ev : ev \in events)

Range(q) == { q[i] : i \in 1..Len(q) }

\* C28: process forwards every event that does not qualify for remapping to
\* the output buffer unchanged, message and sample position, and the output
\* keeps these events in the order of the input; when no event of the buffer
\* qualifies, compute is not called and lastInputValue stays as it was.
C28_OthersForwardedUnchanged ==
    audio.pc = "idle" =>
        /\ Among(midi, Range(NotRemapped)) = NotRemapped
        /\ Len(NotRemapped) = Len(block.input) =>
              /\ block.calls = << >>
              /\ lastInputValue = block.before

\* C29: process emits exactly one output event per input event: an event that
\* qualifies is replaced by one remapped event on the same channel that
\* carries the value compute returned for it, cut to an integer, and the
\* event itself is not forwarded as well.
C29_OneOutputPerInput ==
    audio.pc = "idle" =>
        /\ Len(midi) = Len(block.input)
        /\ \A c \in ComputeCalls :
              /\ MidiEvent(c.msg, 0) \notin { MidiEvent(ev.msg, 0) : ev \in Range(midi) }
              /\ Cardinality({ k \in 1..Len(midi) :
                                  /\ midi[k].msg.channel = c.msg.channel
                                  /\ midi[k].msg.kind \in {"controller", "pitchWheel"}
                                  /\ midi[k].msg.value
                                       = TruncDiv(c.result.num, c.result.den * Scale) })
                    >= 1


\* The messages push has put into the queue, in order.
Taken == SelectSeq(pushLog, LAMBDA e : e.taken)

\* Whether p is the beginning of q.
IsPrefix(p, q) == Len(p) <= Len(q) /\ \A i \in 1..Len(p) : p[i] = q[i]

\* C30: the queue hands the messages out in the order they were pushed, each
\* at most once and as it was pushed; a message pushed when the fifo has no
\* free slot is dropped, and the slots and the fifo stay as they are, so no
\* message that is not popped yet is overwritten; a message pushed when there
\* is a free slot is taken.
C30_QueueDelivery ==
    /\ [](IsPrefix(popped, [i \in 1..Len(Taken) |-> Taken[i].ev]))
    /\ [][ Len(pushLog') = Len(pushLog) + 1 =>
              IF getNumReady(fifo) = queueSize - 1
              THEN /\ ~pushLog'[Len(pushLog')].taken
                   /\ messages' = messages
                   /\ fifo' = fifo
              ELSE pushLog'[Len(pushLog')].taken ]_vars

\* The queue was full when a message was pushed, which was dropped; the
\* messages taken before and after it have all been popped, in order.
C30_Witness ==
    /\ \E i \in 1..Len(pushLog) :
          /\ ~pushLog[i].taken
          /\ \E j \in 1..Len(pushLog) : j > i /\ pushLog[j].taken
    /\ Len(popped) = Len(Taken)
    /\ Len(popped) >= queueSize
    /\ timer.pc = "idle"


\* C21: with the message thread changing the curve (here: loading state
\* through fromValueTree) while the audio thread calls compute, every call of
\* compute reads one fully built node sequence: not one a handler is part-way
\* through building, with at least two nodes, sorted by anchor x.
C21_ComputeReadsBuiltCurve ==
    \A c \in ComputeCalls :
        /\ block.loading = "idle"
        /\ Len(c.nodes) >= 2
        /\ Sorted(c.nodes)

\* The curve the constructor of the model builds: three Linear nodes.
DefaultCurve ==
    StateTree(<< Node(1, Point(minX, minY)),
                 Node(2, Point(minX + (maxX - minX) \div 2, minY + (maxY - minY) \div 2)),
                 Node(3, Point(maxX, maxY)) >>)

\* setStateInformation has run to its end.
Restored == lastEvent.op = "setStateInformation" /\ loading.pc = "idle"

\* C22: loading persisted state that is malformed (curve subtree missing, no
\* children, or a child without anchor or control fields) leaves the model
\* the default curve of three Linear nodes, never empty or partly built.
C22_MalformedStateGivesDefault ==
    (Restored /\ restored.kind \in {"noCurveState", "noChildren", "childWithoutFields",
                                    "childWithoutControls"})
        => StateTree(nodes) = DefaultCurve

\* C27: getStateInformation followed by setStateInformation of the block it
\* wrote leaves the curve as it was when the block was written: the same
\* number of nodes in the same order with the same types and coordinates; a
\* processor whose state tree holds only the child "uiState" included.
C27_PluginStateRoundTrip ==
    (Restored /\ restored.kind = "saved") => StateTree(nodes) = restored.of

\* C34: every insertion request adds exactly one node: a call of addPoint with
\* any point p, one whose x is greater than every anchor x included, makes the
\* node sequence one longer.
C34_AddPointAddsOneNode ==
    [][ lastEvent'.op = "addPoint" => Len(nodes') = Len(nodes) + 1 ]_vars

\* The selected handle is a handle of a node of the sequence.
Live(h) == \E i \in NodeIndices : nodes[i].id = h.node

\* C33: whenever selectedHandle is not null it is a handle of a node that is
\* in the node sequence, after any interleaving of pointer events (press,
\* drag, release, double click, right-click delete) and state loads, which
\* replace every node.
C33_NoDanglingSelection ==
    (loading.pc = "idle" /\ selectedHandle # NoHandle) => Live(selectedHandle)

\* Whether a result of compute is a number of [minY, maxY].
InRange(r) == r.kind = "value" /\ minY * r.den <= r.num /\ r.num <= maxY * r.den

\* C31: in every state reached from construction by editor operations, for
\* every x of [minX, maxX] the value compute(x) lies in [minY, maxY].
C31_OutputInRange ==
    \A x \in DomainInputs : InRange(compute(nodes, x))

\* Whether the anchor x values increase strictly along the sequence.
StrictlySorted(ns) == \A i \in 2..Len(ns) : ns[i - 1].anchor.x < ns[i].anchor.x

\* Whether a result of compute is the number y.
IsNumber(r, y) == r.kind = "value" /\ r.num = y * r.den

\* C32: the curve passes through its anchors: in every state reached by
\* editor operations whose anchor x values increase strictly,
\* compute(n.anchor.x) = n.anchor.y for every node n, whatever the type of
\* the segment that ends at n (or, for the first node, starts at it).
C32_CurveThroughAnchors ==
    StrictlySorted(nodes) =>
        \A i \in NodeIndices :
            IsNumber(compute(nodes, nodes[i].anchor.x), nodes[i].anchor.y)

=============================================================================
